---- MODULE Spec2Model ----
(***************************************************************************)
(* Settings screen (src/client/src/pages/settings.tsx) and the toast hook  *)
(* (src/components/ui/use-toast.ts) as a state machine.                    *)
(*                                                                         *)
(* Everything runs on the single UI thread: each event handler, each       *)
(* mutation callback and each timer callback is one atomic action.         *)
(***************************************************************************)
EXTENDS Integers, Sequences, FiniteSets, Bags, TLC

\* null / undefined is the empty tuple, a present value x is <<x>>
None == <<>>
Some(x) == <<x>>

(***************************************************************************)
(* Bounds of the model.                                                    *)
(***************************************************************************)
\* toast() calls explored in SpecToast
MaxCount == 4
\* write requests issued by the Settings page in Spec
MaxRequests == 2
\* removal timers that may be pending when toast() is called in SpecGenId
MaxTimers == 1
\* The number format of the model: binary floating point as a JavaScript
\* number is, with a significand of MantissaBits bits (53 in a double) and
\* a largest exponent of MaxExponent (1023 in a double).
MantissaBits == 7
MaxExponent == 10

(***************************************************************************)
(* use-toast.ts                                                            *)
(***************************************************************************)
TOAST_LIMIT == 1

\* Number.MAX_VALUE: the largest finite number of the format,
\* (2^53 - 1) * 2^971 in a double
NumberMaxValue == (2^MantissaBits - 1) * 2^(MaxExponent - MantissaBits + 1)

\* the binary exponent of a number x >= 1
Exponent(x) == CHOOSE e \in 0..MaxExponent : 2^e <= x /\ x < 2^(e + 1)

\* The number that holds the real value x >= 0 of an arithmetic result:
\* x itself when the significand can hold it, else the nearest number of
\* the format, a tie going to the one with the even significand.
RoundToNumber(x) ==
  IF x < 2^MantissaBits THEN x
  ELSE LET ulp == 2^(Exponent(x) - MantissaBits + 1)
           q   == x \div ulp
           r   == x % ulp
       IN IF 2 * r < ulp THEN q * ulp
          ELSE IF 2 * r > ulp THEN (q + 1) * ulp
          ELSE IF q % 2 = 0 THEN q * ulp ELSE (q + 1) * ulp

\* Every call of useToast() runs React.useState, so every component that
\* calls the hook owns a State of its own.  Settings calls it at
\* settings.tsx:87; "Other" is any second component calling the hook.
Consumers == {"Settings", "Other"}

\* Payloads handed to toast() by callers outside the Settings page.
ToastInputs ==
  { [title |-> "Sucesso", description |-> <<"ok">>, variant |-> "default"],
    [title |-> "Erro", description |-> <<"Falha: ", "x">>, variant |-> "destructive"] }

VARIABLES
  count,      \* use-toast.ts: module-level counter of genId
  toasts,     \* use-toast.ts: state.toasts of every consumer's useToast()
  timers,     \* pending setTimeout callbacks, oldest first (all have the same delay)
  lastToast   \* the entry built by the most recent toast() call, and its caller

toastVars == <<count, toasts, timers, lastToast>>

Min(a, b) == IF a < b THEN a ELSE b

\* Array.prototype.slice(start, end) for 0 <= start <= end
slice(s, start, end) == SubSeq(s, start + 1, Min(end, Len(s)))

Range(s) == { s[i] : i \in DOMAIN s }

\* genId: the counter after the call; the id returned is its decimal string.
\* count + 1 is a floating-point addition.
genId(c) == RoundToNumber(c + 1) % NumberMaxValue

\* (mutant) the updater without the cap
addToast_NoCap(list, entry) == Append(list, entry)

\* the setState updater of toast(): append, then slice(0, TOAST_LIMIT)
addToast(list, entry) == slice(Append(list, entry), 0, TOAST_LIMIT)

\* (mutant) the filter's test inverted
removeToast_Inverted(list, id) ==
  LET keep(t) == t.id = id
  IN SelectSeq(list, keep)

\* the setState updater of the timer callback
\* (Array.prototype.filter is SelectSeq)
removeToast(list, id) ==
  LET keep(t) == t.id # id
  IN SelectSeq(list, keep)

\* toast(props) called through consumer c's hook
toast(c, props) ==
  LET n     == genId(count)
      id    == ToString(n)
      entry == [id |-> id, title |-> props.title,
                description |-> props.description, variant |-> props.variant]
  IN /\ count' = n
     /\ toasts' = [toasts EXCEPT ![c] = addToast(@, entry)]
     /\ timers' = Append(timers, [consumer |-> c, id |-> id])
     /\ lastToast' = Some([consumer |-> c, toast |-> entry])

\* some component calls toast()
Toast ==
  /\ count < MaxCount
  /\ \E c \in Consumers, props \in ToastInputs : toast(c, props)

\* the oldest pending setTimeout callback runs
TimerFires ==
  /\ timers # <<>>
  /\ LET t == Head(timers)
     IN toasts' = [toasts EXCEPT ![t.consumer] = removeToast(@, t.id)]
  /\ timers' = Tail(timers)
  /\ UNCHANGED <<count, lastToast>>

InitToast ==
  /\ count = 0
  /\ toasts = [c \in Consumers |-> <<>>]
  /\ timers = <<>>
  /\ lastToast = None

(***************************************************************************)
(* settings.tsx: calculateDuration, called for every row of the time-slot  *)
(* table (line 410)                                                        *)
(***************************************************************************)

\* A JavaScript number is <<n>>, NaN is the empty tuple.
NaN == <<>>
Num(n) == <<n>>

\* Time strings are tuples of characters here, so that parsing reads them
\* character by character.
Digits == <<"0", "1", "2", "3", "4", "5", "6", "7", "8", "9">>
IsDigit(ch) == \E i \in DOMAIN Digits : Digits[i] = ch
DigitValue(ch) == (CHOOSE i \in DOMAIN Digits : Digits[i] = ch) - 1

\* the string "HH:MM" of hour h and minute m
TimeString(h, m) ==
  <<Digits[(h \div 10) + 1], Digits[(h % 10) + 1], ":",
    Digits[(m \div 10) + 1], Digits[(m % 10) + 1]>>

\* Hours and minutes of the rows explored, and a string that is no time.
RowHours == {0, 8, 9, 10, 23}
RowMinutes == {0, 30, 45}
NotATime == { <<"a", "b", "c">> }
RowTimes == { TimeString(h, m) : h \in RowHours, m \in RowMinutes } \cup NotATime

VARIABLES
  row,       \* a fetched TimeSlot row: startTime, endTime
  duration   \* the text of the row's duration cell, None before it is rendered

rowVars == <<row, duration>>

\* new Date(`2023-01-01T${time}`).getTime(): milliseconds of the local time
\* HH:MM on the reference day, counted from that day's local midnight (the
\* midnight's own epoch offset is the same in both operands of the
\* subtraction); NaN (Invalid Date) when the string is no HH:MM time.
getTime(time) ==
  IF /\ Len(time) = 5
     /\ IsDigit(time[1]) /\ IsDigit(time[2]) /\ time[3] = ":"
     /\ IsDigit(time[4]) /\ IsDigit(time[5])
     /\ 10 * DigitValue(time[1]) + DigitValue(time[2]) <= 23
     /\ 10 * DigitValue(time[4]) + DigitValue(time[5]) <= 59
  THEN Num(((10 * DigitValue(time[1]) + DigitValue(time[2])) * 60
             + 10 * DigitValue(time[4]) + DigitValue(time[5])) * 60000)
  ELSE NaN

\* arithmetic on numbers that may be NaN
Minus(a, b) == IF a = NaN \/ b = NaN THEN NaN ELSE Num(a[1] - b[1])
FloorDiv(a, d) == IF a = NaN THEN NaN ELSE Num(a[1] \div d)
Mod(a, d) == IF a = NaN THEN NaN ELSE Num(a[1] % d)
LessThan(a, n) == a # NaN /\ a[1] < n
GreaterThan(a, n) == a # NaN /\ a[1] > n
\* `${x}` of a number
NumberToString(a) == IF a = NaN THEN "NaN" ELSE ToString(a[1])

\* (mutant) the first branch taken up to 60 minutes
calculateDuration_UpTo60(startTime, endTime) ==
  LET start      == getTime(startTime)
      end        == getTime(endTime)
      durationMs == Minus(end, start)
      minutes    == FloorDiv(durationMs, 60000)
  IN IF LessThan(minutes, 61)
     THEN NumberToString(minutes) \o " minutos"
     ELSE LET hours         == FloorDiv(minutes, 60)
              remainingMins == Mod(minutes, 60)
          IN IF GreaterThan(remainingMins, 0)
             THEN NumberToString(hours) \o "h " \o NumberToString(remainingMins) \o "min"
             ELSE NumberToString(hours) \o " horas"

\* No statement of the try block throws (an Invalid Date's getTime() is
\* NaN), so the catch branch is never taken.
calculateDuration(startTime, endTime) ==
  LET start      == getTime(startTime)
      end        == getTime(endTime)
      durationMs == Minus(end, start)
      minutes    == FloorDiv(durationMs, 60000)
  IN IF LessThan(minutes, 60)
     THEN NumberToString(minutes) \o " minutos"
     ELSE LET hours         == FloorDiv(minutes, 60)
              remainingMins == Mod(minutes, 60)
          IN IF GreaterThan(remainingMins, 0)
             THEN NumberToString(hours) \o "h " \o NumberToString(remainingMins) \o "min"
             ELSE NumberToString(hours) \o " horas"

\* the duration cell of the row is rendered
RenderDuration ==
  /\ duration = None
  /\ duration' = Some(calculateDuration(row.startTime, row.endTime))
  /\ UNCHANGED row

\* the table renders again
RenderAgain ==
  /\ duration # None
  /\ duration' = None
  /\ UNCHANGED row

(***************************************************************************)
(* settings.tsx                                                            *)
(***************************************************************************)

\* The rows the two list queries have fetched (server data, lines 94-111).
\* The server assigns the ids; 0 is an integer it may assign.
ActivityTypes ==
  { [id |-> 0, name |-> "Aula", code |-> "au", color |-> "#ef4444"],
    [id |-> 1, name |-> "Prova", code |-> "pr", color |-> "#3b82f6"] }

TimeSlotIds == {1}

\* What the user leaves in the fields of the activity modal after editing
\* them: a name that is too short, or a valid form.  (A code that is too
\* short is what the blank form has.)
ActivityInputs ==
  { [name |-> "A", code |-> "au", color |-> "#3b82f6"],
    [name |-> "Aula", code |-> "au", color |-> "#ef4444"] }

\* The same for the time-slot modal (<input type="time"> fields).
TimeSlotInputs ==
  { [startTime |-> "08:0", endTime |-> "09:30"],
    [startTime |-> "08:00", endTime |-> "09:30"] }

\* error.message of a rejected apiRequest (network error or non-2xx status)
ErrorMessages == {"500: Internal Server Error"}

ACTIVITY_TYPES_KEY == "/api/activity-types"
TIME_SLOTS_KEY == "/api/time-slots"
QueryKeys == {ACTIVITY_TYPES_KEY, TIME_SLOTS_KEY}

VARIABLES
  editingActivityId,  \* useState<number | null>(null)
  activityModalOpen,  \* useState(false)
  timeSlotModalOpen,  \* useState(false)
  activityForm,       \* useForm state: values, defaultValues, errors, isSubmitted
  timeSlotForm,       \* useForm state
  pending,            \* bag of the mutations whose apiRequest is in flight
  responses,          \* bag of the answers the server has given
  invalidations       \* queryClient.invalidateQueries calls per query key

formVars == <<activityForm, timeSlotForm>>
viewVars == <<editingActivityId, activityModalOpen, timeSlotModalOpen>>
netVars == <<pending, responses>>

\* JavaScript truthiness of a number | null | undefined
Truthy(opt) == opt # None /\ opt[1] # 0

\* (mutant) the name's minimum off by one
activityTypeSchema_NameMin1(v) ==
  (IF Len(v.name) >= 1 THEN {} ELSE {"name"})
    \cup (IF Len(v.code) >= 2 THEN {} ELSE {"code"})
    \cup (IF Len(v.color) >= 1 THEN {} ELSE {"color"})

\* ---- zod schemas: the set of fields that fail ----
activityTypeSchema(v) ==
  (IF Len(v.name) >= 2 THEN {} ELSE {"name"})
    \cup (IF Len(v.code) >= 2 THEN {} ELSE {"code"})
    \cup (IF Len(v.color) >= 1 THEN {} ELSE {"color"})

timeSlotSchema(v) ==
  (IF Len(v.startTime) >= 5 THEN {} ELSE {"startTime"})
    \cup (IF Len(v.endTime) >= 5 THEN {} ELSE {"endTime"})

\* ---- react-hook-form ----
ActivityDefaults == [name |-> "", code |-> "", color |-> "#3b82f6"]
TimeSlotDefaults == [startTime |-> "", endTime |-> ""]

useForm(defaultValues) ==
  [values |-> defaultValues, defaultValues |-> defaultValues,
   errors |-> {}, isSubmitted |-> FALSE]

\* form.reset(values): the values become the form's values and, as no
\* keepDefaultValues option is passed, its defaultValues as well
resetTo(form, values) ==
  [values |-> values, defaultValues |-> values, errors |-> {}, isSubmitted |-> FALSE]

\* form.reset(): back to the form's current defaultValues
reset(form) == resetTo(form, form.defaultValues)

\* the fields' onChange: the user leaves the form holding `values`; after a
\* submit every changed field is validated again (reValidateMode is
\* "onChange" by default)
\* (`failing` is what the form's schema says of `values`)
change(form, values, failing) ==
  LET changed == { f \in DOMAIN values : values[f] # form.values[f] }
  IN [form EXCEPT
        !.values = values,
        !.errors = IF form.isSubmitted
                   THEN (@ \ changed) \cup (failing \cap changed)
                   ELSE @]

\* form.handleSubmit(onValid): what it does to the form state
\* (`failing` is what the form's schema says of the form's values)
submitted(form, failing) ==
  [form EXCEPT !.errors = failing, !.isSubmitted = TRUE]

\* ---- requests ----
apiRequest(method, url, data) == [method |-> method, url |-> url, body |-> data]

ActivityUrl(id) == ACTIVITY_TYPES_KEY \o "/" \o ToString(id)
TimeSlotUrl(id) == TIME_SLOTS_KEY \o "/" \o ToString(id)

\* mutationFn of saveActivityType; data.id is None when the field is absent
saveActivityTypeFn(data) ==
  IF Truthy(data.id)
  THEN apiRequest("PUT", ActivityUrl(data.id[1]), data)
  ELSE apiRequest("POST", ACTIVITY_TYPES_KEY, data)

deleteActivityTypeFn(id) == apiRequest("DELETE", ActivityUrl(id), <<>>)

saveTimeSlotFn(data) == apiRequest("POST", TIME_SLOTS_KEY, data)

deleteTimeSlotFn(id) == apiRequest("DELETE", TimeSlotUrl(id), <<>>)

\* the list query each mutation writes to
KeyOf(mutation) ==
  IF mutation \in {"saveActivityType", "deleteActivityType"}
  THEN ACTIVITY_TYPES_KEY ELSE TIME_SLOTS_KEY

Issued == BagCardinality(pending) + BagCardinality(responses)

\* useMutation's mutate(): mutationFn runs and its request is in flight
mutate(mutation, request) ==
  /\ Issued < MaxRequests
  /\ pending' = pending (+) SetToBag({[mutation |-> mutation, request |-> request]})
  /\ UNCHANGED responses

\* the answer to the request of mutation m: 2xx, or apiRequest throws an
\* error with this message
Response(m, ok, message) ==
  [mutation |-> m.mutation, method |-> m.request.method,
   ok |-> ok, message |-> message]

\* the server answers the request in flight of mutation m
respond(m, ok, message) ==
  /\ pending' = pending (-) SetToBag({m})
  /\ responses' = responses (+) SetToBag({Response(m, ok, message)})

invalidateQueries(key) ==
  invalidations' = [invalidations EXCEPT ![key] = @ + 1]

\* ---- event handlers ----
handleEditActivity(activity) ==
  /\ editingActivityId' = Some(activity.id)
  /\ activityForm' = resetTo(activityForm,
       [name |-> activity.name, code |-> activity.code, color |-> activity.color])
  /\ activityModalOpen' = TRUE
  /\ UNCHANGED <<timeSlotModalOpen, timeSlotForm, netVars, invalidations, toastVars, rowVars>>

HandleEditActivity == \E activity \in ActivityTypes : handleEditActivity(activity)

HandleNewActivity ==
  /\ editingActivityId' = None
  /\ activityForm' = resetTo(activityForm,
       [name |-> "", code |-> "", color |-> "#3b82f6"])
  /\ activityModalOpen' = TRUE
  /\ UNCHANGED <<timeSlotModalOpen, timeSlotForm, netVars, invalidations, toastVars, rowVars>>

\* Cancelar, or the dialog's onOpenChange(false)
CloseActivityModal ==
  /\ activityModalOpen
  /\ activityModalOpen' = FALSE
  /\ UNCHANGED <<editingActivityId, timeSlotModalOpen, formVars, netVars,
                 invalidations, toastVars, rowVars>>

OpenTimeSlotModal ==
  /\ ~timeSlotModalOpen
  /\ timeSlotModalOpen' = TRUE
  /\ UNCHANGED <<editingActivityId, activityModalOpen, formVars, netVars,
                 invalidations, toastVars, rowVars>>

CloseTimeSlotModal ==
  /\ timeSlotModalOpen
  /\ timeSlotModalOpen' = FALSE
  /\ UNCHANGED <<editingActivityId, activityModalOpen, formVars, netVars,
                 invalidations, toastVars, rowVars>>

\* the user edits the fields of the open activity modal
ChangeActivityForm ==
  /\ activityModalOpen
  /\ \E values \in ActivityInputs :
       /\ activityForm.values # values
       /\ activityForm' = change(activityForm, values, activityTypeSchema(values))
  /\ UNCHANGED <<viewVars, timeSlotForm, netVars, invalidations, toastVars, rowVars>>

\* the user edits the fields of the open time-slot modal
ChangeTimeSlotForm ==
  /\ timeSlotModalOpen
  /\ \E values \in TimeSlotInputs :
       /\ timeSlotForm.values # values
       /\ timeSlotForm' = change(timeSlotForm, values, timeSlotSchema(values))
  /\ UNCHANGED <<viewVars, activityForm, netVars, invalidations, toastVars, rowVars>>

onSubmitActivityType(data) ==
  IF Truthy(editingActivityId)
  THEN mutate("saveActivityType",
              saveActivityTypeFn([name |-> data.name, code |-> data.code,
                                  color |-> data.color, id |-> editingActivityId]))
  ELSE mutate("saveActivityType",
              saveActivityTypeFn([name |-> data.name, code |-> data.code,
                                  color |-> data.color, id |-> None]))

onSubmitTimeSlot(data) == mutate("saveTimeSlot", saveTimeSlotFn(data))

\* the activity form is submitted: activityForm.handleSubmit(onSubmitActivityType)
SubmitActivityType ==
  /\ activityModalOpen
  /\ activityForm' = submitted(activityForm, activityTypeSchema(activityForm.values))
  /\ IF activityTypeSchema(activityForm.values) = {}
     THEN onSubmitActivityType(activityForm.values)
     ELSE UNCHANGED netVars
  /\ UNCHANGED <<viewVars, timeSlotForm, invalidations, toastVars, rowVars>>

\* the time-slot form is submitted: timeSlotForm.handleSubmit(onSubmitTimeSlot)
SubmitTimeSlot ==
  /\ timeSlotModalOpen
  /\ timeSlotForm' = submitted(timeSlotForm, timeSlotSchema(timeSlotForm.values))
  /\ IF timeSlotSchema(timeSlotForm.values) = {}
     THEN onSubmitTimeSlot(timeSlotForm.values)
     ELSE UNCHANGED netVars
  /\ UNCHANGED <<viewVars, activityForm, invalidations, toastVars, rowVars>>

\* Excluir on a row of the activity table
DeleteActivityType ==
  /\ \E activity \in ActivityTypes :
       mutate("deleteActivityType", deleteActivityTypeFn(activity.id))
  /\ UNCHANGED <<viewVars, formVars, invalidations, toastVars, rowVars>>

\* Excluir on a row of the time-slot table
DeleteTimeSlot ==
  /\ \E id \in TimeSlotIds : mutate("deleteTimeSlot", deleteTimeSlotFn(id))
  /\ UNCHANGED <<viewVars, formVars, invalidations, toastVars, rowVars>>

\* ---- mutation callbacks ----
\* The page takes toast from its own useToast() call (line 87), so its
\* notifications go to the list of the consumer "Settings".
Success(title) == [title |-> "Sucesso", description |-> <<title>>, variant |-> "default"]
Failure(prefix, message) ==
  [title |-> "Erro", description |-> <<prefix, message>>, variant |-> "destructive"]

saveActivityTypeOnSuccess ==
  /\ toast("Settings",
           Success(IF Truthy(editingActivityId)
                   THEN "Tipo de atividade atualizado com sucesso."
                   ELSE "Tipo de atividade criado com sucesso."))
  /\ activityModalOpen' = FALSE
  /\ activityForm' = reset(activityForm)
  /\ editingActivityId' = None
  /\ invalidateQueries(ACTIVITY_TYPES_KEY)
  /\ UNCHANGED <<timeSlotModalOpen, timeSlotForm>>

\* (mutant) the error callback closes the modal as the success callback does
saveActivityTypeOnError_Closes(message) ==
  /\ toast("Settings", Failure("Falha ao salvar: ", message))
  /\ activityModalOpen' = FALSE
  /\ UNCHANGED <<editingActivityId, timeSlotModalOpen, formVars, invalidations>>

saveActivityTypeOnError(message) ==
  /\ toast("Settings", Failure("Falha ao salvar: ", message))
  /\ UNCHANGED <<viewVars, formVars, invalidations>>

deleteActivityTypeOnSuccess ==
  /\ toast("Settings", Success("Tipo de atividade excluído com sucesso."))
  /\ invalidateQueries(ACTIVITY_TYPES_KEY)
  /\ UNCHANGED <<viewVars, formVars>>

deleteActivityTypeOnError(message) ==
  /\ toast("Settings", Failure("Falha ao excluir: ", message))
  /\ UNCHANGED <<viewVars, formVars, invalidations>>

saveTimeSlotOnSuccess ==
  /\ toast("Settings", Success("Horário adicionado com sucesso."))
  /\ timeSlotModalOpen' = FALSE
  /\ timeSlotForm' = reset(timeSlotForm)
  /\ invalidateQueries(TIME_SLOTS_KEY)
  /\ UNCHANGED <<editingActivityId, activityModalOpen, activityForm>>

saveTimeSlotOnError(message) ==
  /\ toast("Settings", Failure("Falha ao salvar: ", message))
  /\ UNCHANGED <<viewVars, formVars, invalidations>>

\* (mutant) the callback invalidates the other resource's key
deleteTimeSlotOnSuccess_OtherKey ==
  /\ toast("Settings", Success("Horário excluído com sucesso."))
  /\ invalidateQueries(ACTIVITY_TYPES_KEY)
  /\ UNCHANGED <<viewVars, formVars>>

deleteTimeSlotOnSuccess ==
  /\ toast("Settings", Success("Horário excluído com sucesso."))
  /\ invalidateQueries(TIME_SLOTS_KEY)
  /\ UNCHANGED <<viewVars, formVars>>

deleteTimeSlotOnError(message) ==
  /\ toast("Settings", Failure("Falha ao excluir: ", message))
  /\ UNCHANGED <<viewVars, formVars, invalidations>>

onSuccess(mutation) ==
  CASE mutation = "saveActivityType" -> saveActivityTypeOnSuccess
    [] mutation = "deleteActivityType" -> deleteActivityTypeOnSuccess
    [] mutation = "saveTimeSlot" -> saveTimeSlotOnSuccess
    [] mutation = "deleteTimeSlot" -> deleteTimeSlotOnSuccess

onError(mutation, message) ==
  CASE mutation = "saveActivityType" -> saveActivityTypeOnError(message)
    [] mutation = "deleteActivityType" -> deleteActivityTypeOnError(message)
    [] mutation = "saveTimeSlot" -> saveTimeSlotOnError(message)
    [] mutation = "deleteTimeSlot" -> deleteTimeSlotOnError(message)

\* a request in flight is answered 2xx: the mutation's onSuccess runs
RequestSucceeds ==
  \E m \in BagToSet(pending) :
    /\ respond(m, TRUE, "")
    /\ onSuccess(m.mutation)
    /\ UNCHANGED rowVars

\* a request in flight fails: apiRequest throws, the mutation's onError runs
RequestFails ==
  \E m \in BagToSet(pending), message \in ErrorMessages :
    /\ respond(m, FALSE, message)
    /\ onError(m.mutation, message)
    /\ UNCHANGED rowVars

\* a removal timer of the page's toasts fires
SettingsTimerFires ==
  /\ TimerFires
  /\ UNCHANGED <<viewVars, formVars, netVars, invalidations, rowVars>>

(***************************************************************************)
(* Specifications                                                          *)
(***************************************************************************)
settingsVars == <<viewVars, formVars, netVars, invalidations>>

vars == <<toastVars, settingsVars, rowVars>>

InitSettings ==
  /\ editingActivityId = None
  /\ activityModalOpen = FALSE
  /\ timeSlotModalOpen = FALSE
  /\ activityForm = useForm(ActivityDefaults)
  /\ timeSlotForm = useForm(TimeSlotDefaults)
  /\ pending = EmptyBag
  /\ responses = EmptyBag
  /\ invalidations = [k \in QueryKeys |-> 0]

\* no row is on display until the list query has answered
InitRow ==
  /\ row = [startTime |-> <<>>, endTime |-> <<>>]
  /\ duration = None

Init == InitToast /\ InitSettings /\ InitRow

\* the Settings page
Next ==
  \/ HandleNewActivity
  \/ HandleEditActivity
  \/ CloseActivityModal
  \/ OpenTimeSlotModal
  \/ CloseTimeSlotModal
  \/ ChangeActivityForm
  \/ ChangeTimeSlotForm
  \/ SubmitActivityType
  \/ SubmitTimeSlot
  \/ DeleteActivityType
  \/ DeleteTimeSlot
  \/ RequestSucceeds
  \/ RequestFails
  \/ SettingsTimerFires

Spec == Init /\ [][Next]_vars

\* the toast hook under arbitrary callers
ToastCalled == Toast /\ UNCHANGED <<settingsVars, rowVars>>
ToastTimerFires == TimerFires /\ UNCHANGED <<settingsVars, rowVars>>

NextToast == ToastCalled \/ ToastTimerFires

SpecToast == Init /\ [][NextToast]_vars

\* timers do fire: the host runs every scheduled callback
FairSpecToast == SpecToast /\ WF_vars(ToastTimerFires)

\* genId over a long run of toast() calls: the toast hook without a bound on
\* the number of calls (the toasts are removed in time)
ToastCalledFreely ==
  /\ Len(timers) < MaxTimers
  /\ \E c \in Consumers, props \in ToastInputs : toast(c, props)
  /\ UNCHANGED <<settingsVars, rowVars>>

NextGenId == ToastCalledFreely \/ ToastTimerFires

SpecGenId == Init /\ [][NextGenId]_vars

\* calculateDuration over the rows of the time-slot table
InitDuration ==
  /\ InitToast /\ InitSettings
  /\ row \in [startTime : RowTimes, endTime : RowTimes]
  /\ duration = None

DurationRendered == RenderDuration /\ UNCHANGED <<toastVars, settingsVars>>
DurationRenderedAgain == RenderAgain /\ UNCHANGED <<toastVars, settingsVars>>

NextDuration == DurationRendered \/ DurationRenderedAgain

SpecDuration == InitDuration /\ [][NextDuration]_vars

(***************************************************************************)
(* Properties                                                              *)
(***************************************************************************)

\* the removal timer of the toast with this id, scheduled through consumer
\* c's hook, has not fired yet
TimerPending(c, id) ==
  \E i \in DOMAIN timers : timers[i] = [consumer |-> c, id |-> id]

\* C1 (SpecToast): until its removal timer fires, the most recently enqueued
\* message is in the list of the hook it was enqueued through (the entry the
\* cap drops is the oldest one, never the newest).
C1_MostRecentVisible ==
  lastToast # None =>
    LET last == lastToast[1]
    IN TimerPending(last.consumer, last.toast.id)
         => last.toast \in Range(toasts[last.consumer])

\* C2 (SpecToast): the list of every hook holds at most TOAST_LIMIT entries.
C2_AtMostLimit == \A c \in Consumers : Len(toasts[c]) <= TOAST_LIMIT

\* C2's case: two toasts of one hook wait for their timers, the list is full
C2_Witness ==
  \E c \in Consumers :
    /\ Len(toasts[c]) = TOAST_LIMIT
    /\ Cardinality({ i \in DOMAIN timers : timers[i].consumer = c }) >= 2

\* C3 (SpecToast): the list is process-wide: all consumers of the hook read
\* the same list, so a message enqueued through one is in the list of the
\* other.
C3_OneListForAll == \A c1, c2 \in Consumers : toasts[c1] = toasts[c2]

\* the responses among `answers` that are successful writes of query key k
OkWrites(answers, k) ==
  LET S == { r \in BagToSet(answers) : r.ok /\ KeyOf(r.mutation) = k }
  IN BagCardinality([r \in S |-> answers[r]])

\* C4 (Spec): per resource, the invalidations of its list key are as many as
\* its writes the server has answered with success: one per success, none
\* for a failure, none for a write to the other resource.
C4_InvalidatedOncePerWrite ==
  \A k \in QueryKeys : invalidations[k] = OkWrites(responses, k)

\* C4's case: one write succeeded and another one failed
C4_Witness ==
  /\ \E r \in BagToSet(responses) : r.ok
  /\ \E r \in BagToSet(responses) : ~r.ok

\* the mutations whose request goes out in this step
Sent == { m \in BagToSet(pending') : CopiesIn(m, pending') > CopiesIn(m, pending) }

\* the answers that arrive in this step
Answered ==
  { r \in BagToSet(responses') : CopiesIn(r, responses') > CopiesIn(r, responses) }

\* C5 (Spec): a POST or PUT goes out only in a step that starts in a form
\* whose values satisfy the schema (name and code of length >= 2, color not
\* empty; startTime and endTime of length >= 5), and it carries those values.
C5_OnlyValidFormsAreSent ==
  [][\A m \in Sent :
       /\ m.mutation = "saveActivityType" =>
            /\ Len(activityForm.values.name) >= 2
            /\ Len(activityForm.values.code) >= 2
            /\ Len(activityForm.values.color) >= 1
            /\ m.request.body.name = activityForm.values.name
            /\ m.request.body.code = activityForm.values.code
            /\ m.request.body.color = activityForm.values.color
       /\ m.mutation = "saveTimeSlot" =>
            /\ Len(timeSlotForm.values.startTime) >= 5
            /\ Len(timeSlotForm.values.endTime) >= 5
            /\ m.request.body = timeSlotForm.values
       /\ m.request.method \in {"POST", "PUT"} =>
            m.mutation \in {"saveActivityType", "saveTimeSlot"}]_vars

\* C5's case: both forms were submitted with values that violate the schema
\* (name "A"; startTime "08:0"), the errors are shown, nothing was sent
C5_Witness ==
  /\ activityForm.isSubmitted /\ activityForm.values.name = "A"
  /\ "name" \in activityForm.errors
  /\ timeSlotForm.isSubmitted /\ timeSlotForm.values.startTime = "08:0"
  /\ "startTime" \in timeSlotForm.errors
  /\ Issued = 0

\* C6 (Spec): a submit of the activity form issues PUT
\* /api/activity-types/{id} exactly when an editing id is set (the modal was
\* opened by handleEditActivity; the id may be 0) and POST
\* /api/activity-types exactly when none is set (handleNewActivity).
C6_DispatchByEditingId ==
  [][\A m \in Sent :
       m.mutation = "saveActivityType" =>
         IF editingActivityId # None
         THEN /\ m.request.method = "PUT"
              /\ m.request.url = "/api/activity-types/" \o ToString(editingActivityId[1])
         ELSE /\ m.request.method = "POST"
              /\ m.request.url = "/api/activity-types"]_vars

\* C7 (Spec): when a save of an activity type succeeds, the modal is closed,
\* the form holds name "", code "", color "#3b82f6" and editingActivityId is
\* null; when the creation of a time slot succeeds, its modal is closed and
\* its form holds startTime "" and endTime "".
C7_SaveSuccessBlanksTheForm ==
  [][\A r \in Answered :
       /\ (r.ok /\ r.mutation = "saveActivityType") =>
            /\ activityModalOpen' = FALSE
            /\ activityForm'.values = [name |-> "", code |-> "", color |-> "#3b82f6"]
            /\ editingActivityId' = None
       /\ (r.ok /\ r.mutation = "saveTimeSlot") =>
            /\ timeSlotModalOpen' = FALSE
            /\ timeSlotForm'.values = [startTime |-> "", endTime |-> ""]]_vars

\* C8 (Spec): when a write fails, toast() is called exactly once, with
\* variant "destructive" and a description that contains the error's
\* message; no request goes out, no query key is invalidated, and the modal
\* flags, the forms and editingActivityId stay as they are.
C8_FailureToastsOnceAndNothingElse ==
  [][\A r \in Answered :
       ~r.ok =>
         /\ count' = count + 1
         /\ Len(timers') = Len(timers) + 1
         /\ lastToast' # None
         /\ lastToast'[1].consumer = "Settings"
         /\ lastToast'[1].toast.id = ToString(count')
         /\ lastToast'[1].toast.variant = "destructive"
         /\ r.message \in Range(lastToast'[1].toast.description)
         /\ Sent = {}
         /\ UNCHANGED <<activityModalOpen, timeSlotModalOpen, editingActivityId>>
         /\ UNCHANGED <<activityForm, timeSlotForm>>
         /\ UNCHANGED invalidations]_vars

\* C8's case: a save failed while the modal was open; the modal is still
\* open on the submitted values and the failure is the last toast() call
C8_Witness ==
  /\ \E r \in BagToSet(responses) : ~r.ok /\ r.mutation = "saveActivityType"
  /\ lastToast # None /\ lastToast[1].toast.variant = "destructive"
  /\ activityModalOpen /\ activityForm.isSubmitted
  /\ pending = EmptyBag

\* the toast with this id is in the list of some hook
Listed(id) == \E c \in Consumers : \E t \in Range(toasts[c]) : t.id = id

\* C9 (FairSpecToast): timers firing, no toast stays in a list forever, and
\* a firing timer removes the entries with its id and no other entry.
C9_EventuallyRemoved ==
  /\ \A n \in 1..MaxCount : Listed(ToString(n)) ~> ~Listed(ToString(n))
  /\ [][(timers # <<>> /\ timers' = Tail(timers)) =>
          \A c \in Consumers :
            Range(toasts'[c]) =
              IF c = Head(timers).consumer
              THEN { t \in Range(toasts[c]) : t.id # Head(timers).id }
              ELSE Range(toasts[c])]_vars

\* C9's case: toasts were enqueued, every timer has fired, no list holds any
C9_Witness ==
  /\ count >= 2
  /\ timers = <<>>
  /\ \A c \in Consumers : toasts[c] = <<>>

\* the label the duration policy gives to m elapsed minutes
DurationLabel(m) ==
  IF m < 60 THEN ToString(m) \o " minutos"
  ELSE IF m % 60 = 0 THEN ToString(m \div 60) \o " horas"
  ELSE ToString(m \div 60) \o "h " \o ToString(m % 60) \o "min"

\* C10 (SpecDuration): for a row whose startTime and endTime are "HH:MM"
\* strings with endTime at or after startTime, the duration cell shows the
\* policy's label of the elapsed minutes; 08:00-08:45 is "45 minutos",
\* 08:00-10:00 is "2 horas", 08:00-09:30 is "1h 30min".
C10_DurationLabel ==
  duration # None =>
    /\ \A sh, eh \in RowHours, sm, em \in RowMinutes :
         (/\ row.startTime = TimeString(sh, sm)
          /\ row.endTime = TimeString(eh, em)
          /\ eh * 60 + em >= sh * 60 + sm)
           => duration[1] = DurationLabel((eh * 60 + em) - (sh * 60 + sm))
    /\ row = [startTime |-> <<"0", "8", ":", "0", "0">>,
              endTime |-> <<"0", "8", ":", "4", "5">>] => duration[1] = "45 minutos"
    /\ row = [startTime |-> <<"0", "8", ":", "0", "0">>,
              endTime |-> <<"1", "0", ":", "0", "0">>] => duration[1] = "2 horas"
    /\ row = [startTime |-> <<"0", "8", ":", "0", "0">>,
              endTime |-> <<"0", "9", ":", "3", "0">>] => duration[1] = "1h 30min"

\* C10's case: the cell of the row 08:00-09:30 is rendered
C10_Witness ==
  /\ row = [startTime |-> <<"0", "8", ":", "0", "0">>,
            endTime |-> <<"0", "9", ":", "3", "0">>]
  /\ duration = Some("1h 30min")

\* C11 (SpecDuration): for a row whose startTime or endTime is no parsable
\* time (such as "abc"), the duration cell shows the fallback label
\* "Formato inválido", never a label built from a not-a-number value.
C11_UnparsableFallsBack ==
  (duration # None /\ (row.startTime \in NotATime \/ row.endTime \in NotATime))
    => duration[1] = "Formato inválido"

\* C12 (SpecGenId): every toast() call gets a positive id from the one
\* counter; the ids strictly increase (so no two are equal) until the
\* counter reaches its bound, and the id after the bound is 1.
C12_IdsIncreaseAndWrapToOne ==
  [][Len(timers') > Len(timers) =>
       /\ lastToast' # None
       /\ lastToast'[1].toast.id = ToString(count')
       /\ count' > 0
       /\ IF count + 1 < NumberMaxValue THEN count' > count ELSE count' = 1]_vars

\* C13 (Spec): when an activity-type save request succeeds, the success
\* toast names the operation that request performed: "atualizado" exactly
\* for a PUT and "criado" exactly for a POST, whatever the user did to the
\* page while the request was in flight.
C13_SuccessToastNamesTheRequest ==
  [][\A r \in Answered :
       (r.ok /\ r.mutation = "saveActivityType") =>
         /\ lastToast' # None
         /\ lastToast'[1].toast.description =
              Some(IF r.method = "PUT"
                   THEN "Tipo de atividade atualizado com sucesso."
                   ELSE "Tipo de atividade criado com sucesso.")]_vars

====
